---- MODULE Spec2Model ----
(***************************************************************************)
(* Model of SupplyChainOptimizer (src/supply-chain/src/optimizer.py): the  *)
(* route table with its penalty fallback, the model builder, the solver    *)
(* adapter, and the decoder that turns solver variable names back into     *)
(* (facility, customer, product) shipment records.                         *)
(*                                                                         *)
(* Identifiers are Python strings.  The text of variable names and of what  *)
(* the decoder parses out of them is held as sequences of one-character    *)
(* strings, so that the name encoding and its parsing are computed         *)
(* character by character, as the code computes them.                      *)
(*                                                                         *)
(* Specifications:                                                         *)
(*   Spec          one run of load, create, solve and schedule on ids with *)
(*                 and without special characters;                         *)
(*   SpecAlias     the same on ids that the decoder's pieces spell;        *)
(*   SpecScenario  the same on the one-facility scenario F1, C1, P1;       *)
(*   SpecRerun     repeated runs on one optimizer;                         *)
(*   SpecMain      main() of run.py, with the two report writers;          *)
(*   SpecFiles     one run in which input files may be missing;            *)
(*   SpecNames     load and create on ids that get the same variable name. *)
(***************************************************************************)
EXTENDS Integers, Sequences, FiniteSets, TLC

Range(s) == {s[i] : i \in 1..Len(s)}

(***************************************************************************)
(* Input data.  The ids of the input files.  One id of each kind is plain; *)
(* the others hold a character the name encoding treats specially: a       *)
(* comma, a parenthesis and a hyphen.                                      *)
(***************************************************************************)
F1 == "F1"
F2 == "F,2"
C1 == "C1"
C2 == "C(2"
P1 == "P1"
P2 == "P-2"

FacPool  == {F1, F2}
CustPool == {C1, C2}
ProdPool == {P1, P2}

\* Ids of a second set of input files: the pieces into which the decoder
\* cuts the triple ("F,2", "C1", "P1") are ids themselves: a facility "F",
\* a customer "2" and a product "C1".
AliasFacPool  == {F2, "F"}
AliasCustPool == {C1, "2"}
AliasProdPool == {P1, "C1"}

\* Ids of a third set of input files: two products whose ids differ in one
\* character only, a hyphen in one and an underscore in the other.
P_2 == "P_2"
NamesProdPool == {P2, P_2}

\* The characters of each id.
Chars(id) ==
    CASE id = "F1"  -> <<"F", "1">>
      [] id = "F,2" -> <<"F", ",", "2">>
      [] id = "C1"  -> <<"C", "1">>
      [] id = "C(2" -> <<"C", "(", "2">>
      [] id = "P1"  -> <<"P", "1">>
      [] id = "P-2" -> <<"P", "-", "2">>
      [] id = "P_2" -> <<"P", "_", "2">>
      [] id = "F"   -> <<"F">>
      [] id = "2"   -> <<"2">>

\* The text of a triple of ids.
TripleText(t) == <<Chars(t[1]), Chars(t[2]), Chars(t[3])>>


(***************************************************************************)
(* Python string primitives used by the encoder and the decoder.          *)
(***************************************************************************)

\* str.split(sep) for a one-character separator: empty pieces are kept.
Split(s, d) ==
    LET R[i \in 0..Len(s)] ==
            IF i = 0 THEN << <<>>, <<>> >>
            ELSE LET prev == R[i - 1]
                 IN  IF s[i] = d
                        THEN << Append(prev[1], prev[2]), <<>> >>
                        ELSE << prev[1], Append(prev[2], s[i]) >>
    IN  Append(R[Len(s)][1], R[Len(s)][2])

\* str.strip(chars): drops leading and trailing characters that are in chars.
Strip(s, chars) ==
    LET keep == {i \in 1..Len(s) : s[i] \notin chars}
    IN  IF keep = {} THEN <<>>
        ELSE LET lo == CHOOSE i \in keep : \A j \in keep : i <= j
                 hi == CHOOSE i \in keep : \A j \in keep : j <= i
             IN  SubSeq(s, lo, hi)

\* repr(str): single quotes, unless the text holds a single quote and no
\* double quote.  (Ids of the model hold no double quote and no backslash.)
Repr(s) ==
    IF "'" \in Range(s) THEN <<"\"">> \o s \o <<"\"">>
                        ELSE <<"'">> \o s \o <<"'">>

\* str((f, c, p)): the textual tuple form.
TupleStr(f, c, p) ==
    <<"(">> \o Repr(Chars(f)) \o <<",", " ">> \o Repr(Chars(c)) \o <<",", " ">>
            \o Repr(Chars(p)) \o <<")">>

\* pulp's name sanitiser: each of the characters of "-+[] ->/" becomes "_".
IllegalChars == {"-", "+", "[", "]", " ", ">", "/"}

Translate(s) == [i \in 1..Len(s) |-> IF s[i] \in IllegalChars THEN "_" ELSE s[i]]

ShipmentPrefix == <<"S", "h", "i", "p", "m", "e", "n", "t", "_">>

\* LpVariable.dicts("Shipment", [(f, c, p), ...]): the name of the variable
\* of one triple is "Shipment_%s" % str((f, c, p)), sanitised.
VarName(f, c, p) == Translate(ShipmentPrefix \o TupleStr(f, c, p))

\* The characters of p.strip(" _,'\"").
StripChars == {" ", "_", ",", "'", "\""}

DecodeError == [error |-> "IndexError"]

\* generate_shipment_schedule, the parsing of one variable name: the
\* bracketed form when the name holds "(", the "_"-joined form otherwise.
\* A missing piece is Python's IndexError.
ParseVarName(var_name) ==
    IF "(" \in Range(var_name)
       THEN LET clean == Split(Split(var_name, "(")[2], ")")[1]
                raw   == Split(clean, ",")
                parts == [i \in 1..Len(raw) |-> Strip(raw[i], StripChars)]
            IN  IF Len(parts) < 3 THEN DecodeError
                ELSE [f |-> parts[1], c |-> parts[2], p |-> parts[3]]
       ELSE LET parts == Split(var_name, "_")
            IN  IF Len(parts) < 4 THEN DecodeError
                ELSE [f |-> parts[2], c |-> parts[3], p |-> parts[4]]

\* The products whose is_perishable column may be True.
PerishablePool == {P1}

\* The triples that may have a row in transports.csv: routes of product P1.
RoutePool == FacPool \X CustPool \X {P1}

\* Values of the numeric columns of the input files.  current_utilization
\* is held in percent (0.5 is 50), so that capacity * (1 - utilization) is
\* capacity * (100 - percent) in hundredths.
CostValues        == {10}
TransitValues     == {2}
DemandValues      == {100}
CapacityValues    == {<<100, 50>>, <<100, 150>>}

\* The data rows of transports.csv, demand.csv and capacity.csv together.
MaxRows == 2

\* The input files of the one-facility scenario: at most the ids F1, C1 and
\* P1, unit costs 10 or 20, demands 50 or 100, a capacity that is free,
\* half used or overused, and up to ScenarioRows rows in transports.csv,
\* demand.csv and capacity.csv together.
ScenarioCosts      == {10, 20}
ScenarioDemands    == {50, 100}
ScenarioCapacities == {<<150, 0>>, <<100, 50>>, <<100, 150>>}
ScenarioRows       == 3

\* The rows of the three files together in a repeated run.
RerunRows == 2

\* The sequences of at most n elements of S, without repetition.
RECURSIVE SeqsNoDup(_, _)
SeqsNoDup(S, n) ==
    IF n = 0 THEN {<<>>}
    ELSE LET shorter == SeqsNoDup(S, n - 1)
         IN  shorter \cup
             {Append(q, e) : <<q, e>> \in
                 {w \in shorter \X S : Len(w[1]) = n - 1 /\ w[2] \notin Range(w[1])}}

Triples(facs, custs, prods) == facs \X custs \X prods

VARIABLES
    facilities,       \* self.facilities: the loaded facility ids
    customers,        \* self.customers
    products,         \* self.products
    facility_details, \* self.facility_details: facility id -> [location, type]
    customer_details, \* self.customer_details: customer id -> [region, service_level_agreement]
    product_details,  \* self.product_details: product id -> [category, weight, is_perishable, value]
    cost_matrix,      \* self.cost_matrix: (f, c, p) -> [cost_per_unit, transit_time_days]
    demand_data,      \* self.demand_data, in file order: rows [c, p, demand]
    capacity_data,    \* self.capacity_data, in file order: rows [f, p, capacity, current_utilization]
    authored,         \* the rows of transports.csv as read: (f, c, p) -> [cost_per_unit, transit_time_days]
    problem,          \* self.problem: None, or the LpProblem built so far
    solution,         \* self.solution: None, or [status, variables, total_cost]
    total_cost,       \* self.total_cost, in tenths: None or <<value>>
    schedule,         \* what the last generate_shipment_schedule call returned
    raised,           \* the exception the last call propagated, "none" if it returned
    printed,          \* the warnings and announcements the last call printed
    files,            \* the report files written so far
    csv,              \* the files the last load_data_from_csv call was given
    pc                \* how far the caller got: new, loaded, built, solved, scheduled, ...

vars == <<facilities, customers, products, facility_details, customer_details,
          product_details, cost_matrix, demand_data, capacity_data, authored,
          problem, solution, total_cost, schedule, raised, printed, files, csv, pc>>

data == <<facilities, customers, products, facility_details, customer_details,
          product_details, cost_matrix, demand_data, capacity_data, authored, csv>>

\* Python's None.  A number that may be None is held as <<v>>.
None == <<>>
Some(v) == <<v>>

\* The value of schedule before any generate_shipment_schedule call, after a
\* call that returned None, and after a call that returned a DataFrame.
NotCalled == [returned |-> "NotCalled", rows |-> <<>>]
ReturnedNone == [returned |-> "None", rows |-> <<>>]
DataFrame(rows) == [returned |-> "DataFrame", rows |-> rows]

\* __init__: empty data structures, no problem, no solution.
\* The six file arguments of load_data_from_csv, in the order the method
\* reads them.
FileOrder == <<"facilities", "customers", "products", "transports", "demand", "capacity">>

\* What a load_data_from_csv call was given: the arguments that name no
\* existing file, the facility ids of the facilities file and the
\* (customer_id, product_id) pairs of the demand file (both empty for a
\* file that does not exist).
Given(missing, facility_ids, demand_keys) ==
    [missing |-> missing,
     facility_ids |-> IF "facilities" \in missing THEN {} ELSE facility_ids,
     demand_keys |-> IF "demand" \in missing THEN {} ELSE demand_keys]

NoFiles == Given({}, {}, {})

Init ==
    /\ facilities = {}
    /\ customers = {}
    /\ products = {}
    /\ facility_details = <<>>
    /\ customer_details = <<>>
    /\ product_details = <<>>
    /\ cost_matrix = <<>>
    /\ demand_data = <<>>
    /\ capacity_data = <<>>
    /\ authored = <<>>
    /\ problem = None
    /\ solution = None
    /\ total_cost = None
    /\ schedule = NotCalled
    /\ raised = "none"
    /\ printed = {}
    /\ files = {}
    /\ csv = NoFiles
    /\ pc = "new"

PenaltyCost == 1000
PenaltyTransit == 7

\* A route table whose penalty loop overwrites the authored rows too.
RouteTablePenaltyEverywhere(rows, facs, custs, prods) ==
    [t \in DOMAIN rows \cup Triples(facs, custs, prods) |->
        IF t \in Triples(facs, custs, prods)
           THEN [cost_per_unit |-> PenaltyCost, transit_time_days |-> PenaltyTransit]
           ELSE rows[t]]

\* The route table after load_data_from_csv: the authored rows, then the
\* penalty entry for every triple of the cross product that has no row.
RouteTable(rows, facs, custs, prods) ==
    LET missing_routes == {t \in Triples(facs, custs, prods) : t \notin DOMAIN rows}
    IN  [t \in DOMAIN rows \cup missing_routes |->
            IF t \in missing_routes
               THEN [cost_per_unit |-> PenaltyCost, transit_time_days |-> PenaltyTransit]
               ELSE rows[t]]

\* get_transport_cost: the unit cost of a route, 1000 on a KeyError.
GetTransportCost(f, c, p) ==
    IF <<f, c, p>> \in DOMAIN cost_matrix THEN cost_matrix[<<f, c, p>>].cost_per_unit
    ELSE 1000

\* The attribute columns of facilities.csv, customers.csv and products.csv.
\* Text is held as characters; each text attribute of a row is written
\* from the row's id, so that no two rows share it.
LocationText == <<"a", "t", " ">>
TypeText     == <<"t", "y", "p", "e", " ">>
RegionText   == <<"i", "n", " ">>
SlaText      == <<"d", "a", "y", "s", " ">>
CategoryText == <<"c", "a", "t", " ">>

FacilityRow(f) == [location |-> LocationText \o Chars(f), type |-> TypeText \o Chars(f)]

CustomerRow(c) ==
    [region |-> RegionText \o Chars(c), service_level_agreement |-> SlaText \o Chars(c)]

ProductRow(p, is_perishable) ==
    [category |-> CategoryText \o Chars(p), weight |-> Len(Chars(p)),
     is_perishable |-> is_perishable, value |-> 10 * Len(Chars(p))]

\* load_data_from_csv with six readable files.  The catalogs are subsets of
\* the pools, the keys of transports.csv are among routes, and the rows of
\* transports.csv, demand.csv and capacity.csv are at most n together.  Every data field is assigned anew; problem, solution
\* and total_cost are not touched.
LoadData(FP, CP, PP, routes, perishables, costs, demands, capacities, n) ==
    /\ \E facs \in SUBSET FP, custs \in SUBSET CP, prods \in SUBSET PP :
       \E perishable \in SUBSET (prods \cap perishables) :
       \E nr \in 0..n :
       \E nd \in 0..(n - nr) :
       \E routeKeys \in {R \in SUBSET routes : Cardinality(R) = nr},
          demKeys \in {q \in SeqsNoDup(CP \X PP, nd) : Len(q) = nd},
          capKeys \in SeqsNoDup(FP \X PP, n - nr - nd) :
       \E rows \in [routeKeys -> [cost_per_unit : costs, transit_time_days : TransitValues]],
          dem \in [1..Len(demKeys) -> demands],
          cap \in [1..Len(capKeys) -> capacities] :
            /\ facilities' = facs
            /\ customers' = custs
            /\ products' = prods
            /\ facility_details' = [f \in facs |-> FacilityRow(f)]
            /\ customer_details' = [c \in custs |-> CustomerRow(c)]
            /\ product_details' = [p \in prods |-> ProductRow(p, p \in perishable)]
            /\ authored' = rows
            /\ cost_matrix' = RouteTable(rows, facs, custs, prods)
            /\ demand_data' = [i \in 1..Len(demKeys) |->
                                 [c |-> demKeys[i][1], p |-> demKeys[i][2], demand |-> dem[i]]]
            /\ capacity_data' = [i \in 1..Len(capKeys) |->
                                 [f |-> capKeys[i][1], p |-> capKeys[i][2],
                                  capacity |-> cap[i][1], current_utilization |-> cap[i][2]]]
            /\ printed' = IF Triples(facs, custs, prods) \subseteq DOMAIN rows THEN {}
                          ELSE {"Warning: routes are missing from transports.csv"}
            /\ csv' = Given({}, facs, Range(demKeys))
    /\ pc' = "loaded"
    /\ raised' = "none"
    /\ UNCHANGED <<problem, solution, total_cost, schedule, files>>

\* The index of the first file argument, in reading order, that names no
\* existing file: pd.read_csv raises FileNotFoundError there.
FirstMissing(missing) ==
    CHOOSE i \in 1..Len(FileOrder) :
        /\ FileOrder[i] \in missing
        /\ \A j \in 1..(i - 1) : FileOrder[j] \notin missing

\* The files read before the exception.
ReadBefore(missing) == {FileOrder[j] : j \in 1..(FirstMissing(missing) - 1)}

\* load_data_from_csv when some of the six arguments name no existing file.
\* The six reads share one try block: the fields of the files read before
\* the first missing one are assigned, the others keep their values, and
\* the handler prints the error and raises it again.
LoadDataMissing(FP, CP, PP, routes, perishables, costs, demands, n) ==
    /\ \E missing \in SUBSET Range(FileOrder) \ {{}} :
       \E facs \in SUBSET FP, custs \in SUBSET CP, prods \in SUBSET PP :
       \E perishable \in SUBSET (prods \cap perishables) :
       \E nr \in 0..n :
       \E routeKeys \in {R \in SUBSET routes : Cardinality(R) = nr},
          demKeys \in SeqsNoDup(CP \X PP, n - nr) :
       \E rows \in [routeKeys -> [cost_per_unit : costs, transit_time_days : TransitValues]],
          dem \in [1..Len(demKeys) -> demands] :
       LET read == ReadBefore(missing)
       IN  /\ facilities' = IF "facilities" \in read THEN facs ELSE facilities
           /\ facility_details' = IF "facilities" \in read
                                     THEN [f \in facs |-> FacilityRow(f)]
                                     ELSE facility_details
           /\ customers' = IF "customers" \in read THEN custs ELSE customers
           /\ customer_details' = IF "customers" \in read
                                     THEN [c \in custs |-> CustomerRow(c)]
                                     ELSE customer_details
           /\ products' = IF "products" \in read THEN prods ELSE products
           /\ product_details' = IF "products" \in read
                                    THEN [p \in prods |-> ProductRow(p, p \in perishable)]
                                    ELSE product_details
           /\ authored' = IF "transports" \in read THEN rows ELSE authored
           /\ cost_matrix' = IF "transports" \in read
                                THEN RouteTable(rows, facs, custs, prods)
                                ELSE cost_matrix
           /\ demand_data' = IF "demand" \in read
                                THEN [i \in 1..Len(demKeys) |->
                                        [c |-> demKeys[i][1], p |-> demKeys[i][2],
                                         demand |-> dem[i]]]
                                ELSE demand_data
           /\ capacity_data' = capacity_data
           /\ printed' = {"Error loading data"} \cup
                            (IF "transports" \in read
                                /\ ~(Triples(facs, custs, prods) \subseteq DOMAIN rows)
                                THEN {"Warning: routes are missing from transports.csv"}
                                ELSE {})
           /\ csv' = Given(missing, facs, Range(demKeys))
    /\ pc' = "load_failed"
    /\ raised' = "FileNotFoundError"
    /\ UNCHANGED <<problem, solution, total_cost, schedule, files>>

\* The first load_data_from_csv call on a new optimizer.
Load ==
    /\ pc = "new"
    /\ LoadData(FacPool, CustPool, ProdPool, RoutePool, PerishablePool, CostValues, DemandValues,
                CapacityValues, MaxRows)

(***************************************************************************)
(* create_optimization_model.                                              *)
(***************************************************************************)

\* The text of a constraint name: f"Demand_{c}_{p}" or f"Capacity_{f}_{p}",
\* sanitised by pulp like every name.
ConstraintName(kind, a, b) == Translate(kind \o <<"_">> \o Chars(a) \o <<"_">> \o Chars(b))

DemandPrefix   == <<"D", "e", "m", "a", "n", "d">>
CapacityPrefix == <<"C", "a", "p", "a", "c", "i", "t", "y">>

\* A multiplier that forgets the perishable premium.
MultiplierNoPremium(p) == 10

\* The objective's multiplier in tenths: 1.2 for a perishable product, else 1.0.
Multiplier10(p) == IF product_details[p].is_perishable THEN 12 ELSE 10

\* Variables only for the triples that have an authored route.
ShipmentVarsAuthoredOnly ==
    [t \in Triples(facilities, customers, products) \cap DOMAIN authored |->
        [lowBound |-> Some(0), upBound |-> None]]

\* LpVariable.dicts("Shipment", [(f, c, p) ...], lowBound=0, cat='Continuous'):
\* one continuous variable per triple of the cross product, keyed by the
\* triple, with lower bound 0 and no upper bound.  The name of the variable
\* of t is VarName(t[1], t[2], t[3]).
ShipmentVars ==
    [t \in Triples(facilities, customers, products) |->
        [lowBound |-> Some(0), upBound |-> None]]

\* The objective: the sum over the cross product of
\* shipment_vars[f, c, p] * cost_per_unit * multiplier; here the coefficient
\* (in tenths) of the variable of each triple.
Objective ==
    [t \in Triples(facilities, customers, products) |->
        cost_matrix[t].cost_per_unit * Multiplier10(t[3])]

\* A demand constraint written with <= instead of >=.
DemandConstraintAsLimit(row) ==
    [kind  |-> "Demand",
     key   |-> <<row.c, row.p>>,
     terms |-> {<<f, row.c, row.p>> : f \in facilities},
     sense |-> "<=",
     rhs100 |-> row.demand * 100]

\* Demand constraint of one row: sum over the facilities of
\* shipment_vars[f, c, p] >= demand.  Right-hand sides are in hundredths.
DemandConstraint(row) ==
    [kind  |-> "Demand",
     key   |-> <<row.c, row.p>>,
     terms |-> {<<f, row.c, row.p>> : f \in facilities},
     sense |-> ">=",
     rhs100 |-> row.demand * 100]

\* Capacity constraint of one row: sum over the customers of
\* shipment_vars[f, c, p] <= capacity * (1 - current_utilization).
AvailableCapacityIgnoringUtilization(row) == row.capacity * 100

\* The used capacity taken for the free capacity.
AvailableCapacityUsed(row) == row.capacity * row.current_utilization

AvailableCapacity100(row) == row.capacity * (100 - row.current_utilization)

\* A capacity constraint written with >= instead of <=.
CapacityConstraintAsFloor(row) ==
    [kind  |-> "Capacity",
     key   |-> <<row.f, row.p>>,
     terms |-> {<<row.f, c, row.p>> : c \in customers},
     sense |-> ">=",
     rhs100 |-> AvailableCapacity100(row)]

CapacityConstraint(row) ==
    [kind  |-> "Capacity",
     key   |-> <<row.f, row.p>>,
     terms |-> {<<row.f, c, row.p>> : c \in customers},
     sense |-> "<=",
     rhs100 |-> AvailableCapacity100(row)]

\* The constraints the two loops would add, in order.
WantedConstraints ==
    [i \in 1..Len(demand_data) |-> DemandConstraint(demand_data[i])]
    \o [i \in 1..Len(capacity_data) |-> CapacityConstraint(capacity_data[i])]

\* The name given to a constraint: f"Demand_{c}_{p}" or f"Capacity_{f}_{p}".
NameOf(con) ==
    ConstraintName(IF con.kind = "Demand" THEN DemandPrefix ELSE CapacityPrefix,
                   con.key[1], con.key[2])

\* What adding constraint k raises: KeyError when one of its terms is not a
\* key of shipment_vars, PulpError when its name is already taken.
AddError(wanted, k, shipment_vars) ==
    IF wanted[k].terms \subseteq shipment_vars
       THEN IF k > 1 /\ NameOf(wanted[k]) \in {NameOf(wanted[j]) : j \in 1..(k - 1)}
               THEN "PulpError" ELSE "none"
       ELSE "KeyError"

\* The LpProblem is assigned to self.problem first and filled in place, so
\* an exception leaves the objective and the constraints added before it.
CreateOptimizationModel ==
    /\ pc = "loaded"
    /\ LET shipment_vars == DOMAIN ShipmentVars
           wanted == WantedConstraints
           failing == {k \in 1..Len(wanted) : AddError(wanted, k, shipment_vars) # "none"}
           first == IF failing = {} THEN Len(wanted) + 1
                    ELSE CHOOSE k \in failing : \A j \in failing : k <= j
       IN  /\ problem' = [sense       |-> "LpMinimize",
                          variables   |-> ShipmentVars,
                          objective   |-> Objective,
                          constraints |-> SubSeq(wanted, 1, first - 1)]
           /\ raised' = IF failing = {} THEN "none"
                        ELSE AddError(wanted, first, shipment_vars)
           /\ printed' = IF failing = {} THEN {} ELSE {"Error creating model"}
    /\ pc' = "built"
    /\ UNCHANGED <<data, solution, total_cost, schedule, files>>

(***************************************************************************)
(* solve.  The LP solver is an external service: given the problem it      *)
(* answers Optimal with a minimiser of the objective over the feasible     *)
(* assignments, or Infeasible when there is none.  Every unit cost of the  *)
(* inputs is positive and every variable is >= 0, so no problem of the     *)
(* model is unbounded.                                                     *)
(***************************************************************************)

RECURSIVE SumOver(_, _)
SumOver(S, g) ==
    IF S = {} THEN 0
    ELSE LET e == CHOOSE e \in S : TRUE IN g[e] + SumOver(S \ {e}, g)

\* The values a variable takes in the solver's answers.  The right-hand
\* sides of the model are multiples of 50 and the constraint matrix of a
\* transportation problem is totally unimodular, so the vertices of the
\* feasible region are on this grid; with positive costs no variable of an
\* optimal answer exceeds the demand of its row.
Quantities == {0, 50, 100}

\* The variables that occur in a demand constraint.  Any other variable has
\* a positive cost and only upper limits, so it is 0 in every optimal answer.
Demanded(prob) ==
    UNION {prob.constraints[k].terms :
              k \in {j \in 1..Len(prob.constraints) : prob.constraints[j].sense = ">="}}

Satisfies(a, con) ==
    LET lhs100 == 100 * SumOver(con.terms, a)
    IN  IF con.sense = ">=" THEN lhs100 >= con.rhs100 ELSE lhs100 <= con.rhs100

WithinBounds(v, q) ==
    /\ v.lowBound # None => q >= v.lowBound[1]
    /\ v.upBound # None => q <= v.upBound[1]

FeasibleSet(prob) ==
    LET demanded == Demanded(prob)
        cands == {[t \in DOMAIN prob.variables |-> IF t \in demanded THEN g[t] ELSE 0] :
                     g \in [demanded -> Quantities]}
    IN  {a \in cands :
            /\ \A t \in DOMAIN prob.variables : WithinBounds(prob.variables[t], a[t])
            /\ \A k \in 1..Len(prob.constraints) : Satisfies(a, prob.constraints[k])}

\* problem.objective.value(), in tenths.
ObjectiveValue10(prob, a) ==
    SumOver(DOMAIN prob.objective, [t \in DOMAIN prob.objective |-> prob.objective[t] * a[t]])

\* The minimisers (LpMinimize) or maximisers of the objective.
OptimalSet(prob) ==
    LET feasible == FeasibleSet(prob)
        values == {ObjectiveValue10(prob, a) : a \in feasible}
        best == CHOOSE v \in values :
                    \A w \in values : IF prob.sense = "LpMinimize" THEN v <= w ELSE v >= w
    IN  {a \in feasible : ObjectiveValue10(prob, a) = best}

\* pulp's status codes and LpStatus, their names.
LpStatus ==
    (1 :> "Optimal") @@ (0 :> "Not Solved") @@ (-1 :> "Infeasible")
    @@ (-2 :> "Unbounded") @@ (-3 :> "Undefined")

\* problem.solve(): the answers the solver may give, each a status code
\* and the values of the variables.
SolverAnswers(prob) ==
    IF FeasibleSet(prob) = {}
       THEN {[status |-> -1, values |-> <<>>]}
       ELSE {[status |-> 1, values |-> a] : a \in OptimalSet(prob)}

\* A solution whose total cost starts at 0 instead of None.
InitialSolutionZeroCost(status) ==
    [status |-> LpStatus[status], variables |-> <<>>, total_cost |-> Some(0)]

\* self.solution as solve() first sets it, whatever the status.
InitialSolution(status) ==
    [status |-> LpStatus[status], variables |-> <<>>, total_cost |-> None]

\* self.solution['variables']: v.name -> v.varValue for the variables with
\* varValue > 0.  (No two triples of the pools that are solved share a
\* name.)
StoredVariables(prob, a) ==
    LET positive == {t \in DOMAIN prob.variables : a[t] > 0}
    IN  [n \in {VarName(t[1], t[2], t[3]) : t \in positive} |->
            a[CHOOSE t \in positive : VarName(t[1], t[2], t[3]) = n]]

\* solve(), called after create_optimization_model as run.py calls it (a
\* failed build leaves its partial problem in self.problem, and solve runs
\* that).  Only status 1 (Optimal) sets self.total_cost and fills the
\* solution; any other status leaves self.total_cost as it was.
Solve ==
    /\ pc = "built"
    /\ \E ans \in SolverAnswers(problem) :
          IF ans.status = 1
             THEN /\ total_cost' = Some(ObjectiveValue10(problem, ans.values))
                  /\ solution' = [InitialSolution(ans.status) EXCEPT
                                    !.total_cost = Some(ObjectiveValue10(problem, ans.values)),
                                    !.variables = StoredVariables(problem, ans.values)]
                  /\ printed' = {}
             ELSE /\ total_cost' = total_cost
                  /\ solution' = InitialSolution(ans.status)
                  /\ printed' = {"No optimal solution found"}
    /\ raised' = "none"
    /\ pc' = "solved"
    /\ UNCHANGED <<data, problem, schedule, files>>

(***************************************************************************)
(* generate_shipment_schedule.                                             *)
(***************************************************************************)

\* The characters of the model in code-point order.
CodePoints ==
    <<" ", "\"", "'", "(", ")", "+", ",", "-", "/", "1", "2", ">", "C", "D", "F", "P",
      "S", "[", "]", "_", "a", "c", "d", "e", "h", "i", "m", "n", "p", "t", "y">>

Ord(ch) == CHOOSE i \in 1..Len(CodePoints) : CodePoints[i] = ch

\* Python's < on str.
StrLess(s, t) ==
    \E i \in 1..(Len(t)) :
        /\ \A j \in 1..(i - 1) : j <= Len(s) /\ s[j] = t[j]
        /\ (i > Len(s) \/ Ord(s[i]) < Ord(t[i]))
        /\ i - 1 <= Len(s)

\* Lexicographic < on sequences of str of one length.
KeyLess(k1, k2) ==
    \E i \in 1..Len(k1) :
        /\ \A j \in 1..(i - 1) : k1[j] = k2[j]
        /\ StrLess(k1[i], k2[i])

RowKey(row) == <<row.Facility, row.Customer, row.Product>>

\* The rows left in the order of the shipments list.
SortValuesSkipped(seq) == seq

\* DataFrame.sort_values(by=['Facility', 'Customer', 'Product']): a stable
\* sort of the rows by that key (written as an insertion sort).
RECURSIVE SortValues(_)
SortValues(seq) ==
    IF Len(seq) <= 1 THEN seq
    ELSE LET front == SortValues(SubSeq(seq, 1, Len(seq) - 1))
             last  == seq[Len(seq)]
             after == {i \in 1..Len(front) : KeyLess(RowKey(last), RowKey(front[i]))}
             pos   == IF after = {} THEN Len(front) + 1
                      ELSE CHOOSE i \in after : \A j \in after : i <= j
         IN  SubSeq(front, 1, pos - 1) \o <<last>> \o SubSeq(front, pos, Len(front))

\* The set S as a sequence in increasing order of str.
RECURSIVE InNameOrder(_)
InNameOrder(S) ==
    IF S = {} THEN <<>>
    ELSE LET least == CHOOSE n \in S : \A m \in S \ {n} : StrLess(n, m)
         IN  <<least>> \o InNameOrder(S \ {least})

\* The record appended for one parsed variable.  The parsed pieces are text;
\* the joins are dict.get with defaults on that text, so a key no id spells
\* gives 0 / False instead of an error.
ShipmentRow(parsed, quantity) ==
    LET routes == {t \in DOMAIN cost_matrix : TripleText(t) = <<parsed.f, parsed.c, parsed.p>>}
        cost_info == IF routes = {} THEN [cost_per_unit |-> 0, transit_time_days |-> 0]
                     ELSE cost_matrix[CHOOSE t \in routes : TRUE]
        facs  == {f \in DOMAIN facility_details : Chars(f) = parsed.f}
        custs == {c \in DOMAIN customer_details : Chars(c) = parsed.c}
        prods == {p \in DOMAIN product_details : Chars(p) = parsed.p}
        facility_info == IF facs = {} THEN [location |-> <<>>, type |-> <<>>]
                         ELSE facility_details[CHOOSE f \in facs : TRUE]
        customer_info == IF custs = {} THEN [region |-> <<>>, service_level_agreement |-> <<>>]
                         ELSE customer_details[CHOOSE c \in custs : TRUE]
        product_info == IF prods = {}
                           THEN [category |-> <<>>, weight |-> 0, is_perishable |-> FALSE,
                                 value |-> 0]
                        ELSE product_details[CHOOSE p \in prods : TRUE]
    IN  [Facility          |-> parsed.f,
         Facility_Location |-> facility_info.location,
         Facility_Type     |-> facility_info.type,
         Customer          |-> parsed.c,
         Customer_Region   |-> customer_info.region,
         Customer_SLA      |-> customer_info.service_level_agreement,
         Product           |-> parsed.p,
         Product_Category  |-> product_info.category,
         Product_Weight    |-> product_info.weight,
         Quantity          |-> quantity,
         Unit_Cost         |-> cost_info.cost_per_unit,
         Transit_Time      |-> cost_info.transit_time_days,
         Total_Cost        |-> quantity * cost_info.cost_per_unit,
         Is_Perishable     |-> product_info.is_perishable,
         Product_Value     |-> product_info.value]

\* The shipments list: one record per stored variable whose name parses, in
\* the order of the stored variables (pulp lists variables by name); a name
\* that does not parse is reported and skipped.
RECURSIVE Shipments(_, _)
Shipments(names, stored) ==
    IF names = <<>> THEN <<>>
    ELSE LET parsed == ParseVarName(Head(names))
             rest == Shipments(Tail(names), stored)
         IN  IF parsed = DecodeError THEN rest
             ELSE <<ShipmentRow(parsed, stored[Head(names)])>> \o rest

\* The names of the stored variables that do not parse: each is reported by
\* a printed warning and skipped.
Unparsed == {n \in DOMAIN solution.variables : ParseVarName(n) = DecodeError}

\* What a generate_shipment_schedule call returns in the current state, and
\* what it prints.
ScheduleResult ==
    IF solution = None \/ solution.status # "Optimal" THEN ReturnedNone
    ELSE LET shipments == Shipments(InNameOrder(DOMAIN solution.variables),
                                    solution.variables)
         IN  IF shipments = <<>> THEN ReturnedNone
             ELSE DataFrame(SortValues(shipments))

SchedulePrints ==
    IF solution = None \/ solution.status # "Optimal" THEN {"No optimal solution available"}
    ELSE (IF Unparsed = {} THEN {} ELSE {"Warning: Could not parse variable"})
         \cup (IF Unparsed = DOMAIN solution.variables
                  THEN {"Warning: No valid shipments could be parsed"} ELSE {})

GenerateShipmentSchedule ==
    /\ pc \in {"built", "solved"}
    /\ schedule' = ScheduleResult
    /\ printed' = SchedulePrints
    /\ raised' = "none"
    /\ pc' = "scheduled"
    /\ UNCHANGED <<data, problem, solution, total_cost, files>>

Next ==
    \/ Load
    \/ CreateOptimizationModel
    \/ Solve
    \/ GenerateShipmentSchedule

Spec == Init /\ [][Next]_vars

\* The same calls on the second set of input files.
LoadAlias ==
    /\ pc = "new"
    /\ LoadData(AliasFacPool, AliasCustPool, AliasProdPool,
                AliasFacPool \X AliasCustPool \X {P1}, {P1}, CostValues, DemandValues,
                CapacityValues, MaxRows)

NextAlias ==
    \/ LoadAlias
    \/ CreateOptimizationModel
    \/ Solve
    \/ GenerateShipmentSchedule

SpecAlias == Init /\ [][NextAlias]_vars

\* The same calls on the input files of the one-facility scenario.
LoadScenario ==
    /\ pc = "new"
    /\ LoadData({F1}, {C1}, {P1}, {<<F1, C1, P1>>}, {P1}, ScenarioCosts, ScenarioDemands,
                ScenarioCapacities, ScenarioRows)

NextScenario ==
    \/ LoadScenario
    \/ CreateOptimizationModel
    \/ Solve
    \/ GenerateShipmentSchedule

SpecScenario == Init /\ [][NextScenario]_vars

\* Repeated runs on one optimizer: each run starts with a
\* load_data_from_csv call, the first on the new optimizer, the next after
\* the solve of the run before.  The files hold at most the ids F1, C1 and
\* P1 and at most RerunRows rows.
LoadRun ==
    /\ pc \in {"new", "solved", "scheduled"}
    /\ LoadData({F1}, {C1}, {P1}, {<<F1, C1, P1>>}, {}, CostValues, DemandValues,
                CapacityValues, RerunRows)

NextRerun ==
    \/ LoadRun
    \/ CreateOptimizationModel
    \/ Solve
    \/ GenerateShipmentSchedule

SpecRerun == Init /\ [][NextRerun]_vars

\* The first load_data_from_csv call on a new optimizer, given six paths of
\* which any may name no file; the caller goes on only when the call
\* returned.
LoadFromCsv ==
    /\ pc = "new"
    /\ \/ LoadData(FacPool, {C1}, ProdPool, FacPool \X {C1} \X {P1}, PerishablePool,
                   CostValues, DemandValues, CapacityValues, MaxRows)
       \/ LoadDataMissing(FacPool, {C1}, ProdPool, FacPool \X {C1} \X {P1}, PerishablePool,
                          CostValues, DemandValues, MaxRows)

NextFiles ==
    \/ LoadFromCsv
    \/ CreateOptimizationModel
    \/ Solve
    \/ GenerateShipmentSchedule

SpecFiles == Init /\ [][NextFiles]_vars

\* Loading and building on the third set of input files.  What pulp does
\* with a problem that has two variables of one name is not in this
\* repository; the calls are followed up to the built problem.
LoadNames ==
    /\ pc = "new"
    /\ LoadData({F1}, {C1}, NamesProdPool, {F1} \X {C1} \X NamesProdPool, {}, CostValues,
                DemandValues, CapacityValues, MaxRows)

NextNames ==
    \/ LoadNames
    \/ CreateOptimizationModel

SpecNames == Init /\ [][NextNames]_vars

(***************************************************************************)
(* run.py, main(): load, create, solve, export_to_excel,                   *)
(* generate_html_report, then the closing announcement.  An exception of   *)
(* any call is printed and raised again, which ends the run.               *)
(***************************************************************************)

\* solve(), called only when create_optimization_model returned.
MainSolve ==
    /\ raised = "none"
    /\ Solve

\* export_to_excel(): the schedule is generated; without one the method
\* prints and returns False, with one the file is written unless the writer
\* raises, which is caught and printed.
ExportToExcel ==
    /\ pc = "solved"
    /\ schedule' = ScheduleResult
    /\ IF ScheduleResult = ReturnedNone
          THEN /\ printed' = SchedulePrints \cup {"No data to export"}
               /\ files' = files
          ELSE \E written \in BOOLEAN :
                  /\ printed' = SchedulePrints \cup
                        (IF written THEN {"Results exported"} ELSE {"Error exporting to Excel"})
                  /\ files' = IF written THEN files \cup {"excel"} ELSE files
    /\ raised' = "none"
    /\ pc' = "exported"
    /\ UNCHANGED <<data, problem, solution, total_cost>>

\* generate_html_report(): the schedule is generated; without one the
\* method prints and returns, with one the file is written unless a chart
\* or the write raises, which is caught and printed.
GenerateHtmlReport ==
    /\ pc = "exported"
    /\ schedule' = ScheduleResult
    /\ IF ScheduleResult = ReturnedNone
          THEN /\ printed' = SchedulePrints \cup {"No data to generate report"}
               /\ files' = files
          ELSE \E written \in BOOLEAN :
                  /\ printed' = SchedulePrints \cup
                        (IF written THEN {"HTML report generated"}
                                    ELSE {"Error writing HTML report"})
                  /\ files' = IF written THEN files \cup {"html"} ELSE files
    /\ raised' = "none"
    /\ pc' = "reported"
    /\ UNCHANGED <<data, problem, solution, total_cost>>

\* The last two prints of main(): the announcement, then the total cost
\* formatted with ":,.2f", which is a TypeError when total_cost is None.
MainAnnounce ==
    /\ pc = "reported"
    /\ printed' = {"Optimization completed successfully!"} \cup
                     (IF total_cost = None THEN {"Error running optimizer"}
                                           ELSE {"Total optimized cost"})
    /\ raised' = IF total_cost = None THEN "TypeError" ELSE "none"
    /\ pc' = "done"
    /\ UNCHANGED <<data, problem, solution, total_cost, schedule, files>>

NextMain ==
    \/ LoadScenario
    \/ CreateOptimizationModel
    \/ MainSolve
    \/ ExportToExcel
    \/ GenerateHtmlReport
    \/ MainAnnounce

SpecMain == Init /\ [][NextMain]_vars

(***************************************************************************)
(* Properties.                                                             *)
(***************************************************************************)

CrossProduct == Triples(facilities, customers, products)

\* C1: after load_data_from_csv the route table has an entry for every
\* triple of the cross product of the loaded facilities, customers and
\* products; an authored triple keeps its authored cost and transit time,
\* every other triple of the cross product has cost 1000 and transit 7.
C1_RouteTableComplete ==
    pc # "new" =>
        /\ \A t \in CrossProduct :
              /\ t \in DOMAIN cost_matrix
              /\ t \notin DOMAIN authored =>
                    /\ cost_matrix[t].cost_per_unit = 1000
                    /\ cost_matrix[t].transit_time_days = 7
                    /\ GetTransportCost(t[1], t[2], t[3]) = 1000
        /\ \A t \in DOMAIN authored :
              /\ t \in DOMAIN cost_matrix
              /\ cost_matrix[t] = authored[t]
              /\ GetTransportCost(t[1], t[2], t[3]) = authored[t].cost_per_unit

C1_Witness ==
    /\ pc = "loaded"
    /\ \E t1 \in CrossProduct, t2 \in CrossProduct :
          t1 \in DOMAIN authored /\ t2 \notin DOMAIN authored

BuiltOk == pc = "built" /\ raised = "none"

ConstraintsOfKind(kind) ==
    {k \in 1..Len(problem.constraints) : problem.constraints[k].kind = kind}

\* C2: a model that create_optimization_model returns has exactly one demand
\* constraint per (customer, product) pair of the Demand table: the sum over
\* all facilities of the pair's shipment variables >= the pair's demand;
\* and it has no demand constraint for any other pair.
C2_DemandConstraints ==
    BuiltOk =>
        /\ \A i \in 1..Len(demand_data) :
              LET row == demand_data[i]
                  mine == {k \in ConstraintsOfKind("Demand") :
                              problem.constraints[k].key = <<row.c, row.p>>}
              IN  /\ Cardinality(mine) = 1
                  /\ \A k \in mine :
                        /\ problem.constraints[k].terms = {<<f, row.c, row.p>> : f \in facilities}
                        /\ problem.constraints[k].sense = ">="
                        /\ problem.constraints[k].rhs100 = 100 * row.demand
        /\ \A k \in ConstraintsOfKind("Demand") :
              \E i \in 1..Len(demand_data) :
                  problem.constraints[k].key = <<demand_data[i].c, demand_data[i].p>>

C2_Witness ==
    /\ BuiltOk
    /\ Len(demand_data) = 1
    /\ Cardinality(facilities) = 2
    /\ Cardinality(customers \X products) > 1

\* C3: a model that create_optimization_model returns has exactly one
\* capacity constraint per (facility, product) pair of the Capacity table:
\* the sum over all customers of the pair's shipment variables <=
\* capacity * (1 - current_utilization); and it has no capacity constraint
\* for any other pair.
C3_CapacityConstraints ==
    BuiltOk =>
        /\ \A i \in 1..Len(capacity_data) :
              LET row == capacity_data[i]
                  mine == {k \in ConstraintsOfKind("Capacity") :
                              problem.constraints[k].key = <<row.f, row.p>>}
              IN  /\ Cardinality(mine) = 1
                  /\ \A k \in mine :
                        /\ problem.constraints[k].terms = {<<row.f, c, row.p>> : c \in customers}
                        /\ problem.constraints[k].sense = "<="
                        /\ problem.constraints[k].rhs100 =
                              row.capacity * 100 - row.capacity * row.current_utilization
        /\ \A k \in ConstraintsOfKind("Capacity") :
              \E i \in 1..Len(capacity_data) :
                  problem.constraints[k].key = <<capacity_data[i].f, capacity_data[i].p>>

C3_Witness ==
    /\ BuiltOk
    /\ Len(capacity_data) = 1
    /\ capacity_data[1].current_utilization = 50
    /\ Cardinality(customers) = 2
    /\ Cardinality(facilities \X products) > 1

\* C4: the objective of a built model is minimised and is the sum over the
\* whole cross product of quantity * unit cost * multiplier, the multiplier
\* being 1.2 for a perishable product and 1.0 otherwise; a penalty route
\* enters with unit cost 1000 under the same multiplier.
C4_Objective ==
    problem # None =>
        /\ problem.sense = "LpMinimize"
        /\ DOMAIN problem.objective = CrossProduct
        /\ \A t \in CrossProduct :
              LET tenths == IF product_details[t[3]].is_perishable THEN 12 ELSE 10
              IN  /\ problem.objective[t] = cost_matrix[t].cost_per_unit * tenths
                  /\ t \notin DOMAIN authored => problem.objective[t] = 1000 * tenths

C4_Witness ==
    /\ pc = "built"
    /\ \E t1 \in CrossProduct, t2 \in CrossProduct :
          /\ product_details[t1[3]].is_perishable /\ t1 \in DOMAIN authored
          /\ ~product_details[t2[3]].is_perishable /\ t2 \notin DOMAIN authored

\* C5: a built model has one decision variable per triple of the full cross
\* product, each with lower bound 0 and no upper bound, whatever routes,
\* demand pairs and capacity pairs are present.
C5_DecisionVariables ==
    problem # None =>
        /\ DOMAIN problem.variables = facilities \X customers \X products
        /\ \A t \in DOMAIN problem.variables :
              /\ problem.variables[t].lowBound = Some(0)
              /\ problem.variables[t].upBound = None

C5_Witness ==
    /\ pc = "built"
    /\ Cardinality(DOMAIN problem.variables) = 8
    /\ Cardinality(DOMAIN authored) = 1
    /\ Len(demand_data) = 1

Dangling ==
    \/ \E i \in 1..Len(demand_data) :
          demand_data[i].c \notin customers \/ demand_data[i].p \notin products
    \/ \E i \in 1..Len(capacity_data) :
          capacity_data[i].f \notin facilities \/ capacity_data[i].p \notin products

\* C6: when a key of the Demand table names a customer or product, or a key
\* of the Capacity table names a facility or product, that is not in the
\* loaded catalog, create_optimization_model raises and leaves no model
\* that a following solve can run.
C6_DanglingReferenceFailsFast ==
    (pc = "built" /\ Dangling) => (raised # "none" /\ problem = None)

\* C7: when a Capacity entry has current_utilization above 1, the run stops
\* with an error before any model is solved or any schedule produced, and
\* the negative available capacity is never the bound of a constraint.
C7_NegativeCapacityAborts ==
    (\E i \in 1..Len(capacity_data) : capacity_data[i].current_utilization > 100) =>
        /\ pc = "built" => raised # "none"
        /\ solution = None
        /\ schedule.returned # "DataFrame"
        /\ problem # None =>
              \A k \in ConstraintsOfKind("Capacity") : problem.constraints[k].rhs100 >= 0

\* C8: when the solver's status is not Optimal, solve stores the status with
\* an empty variable mapping and no total cost, and a following
\* generate_shipment_schedule returns no shipment record.
C8_NonOptimalYieldsNoPlan ==
    (solution # None /\ solution.status # "Optimal") =>
        /\ solution.status \in {"Not Solved", "Infeasible", "Unbounded", "Undefined"}
        /\ solution.variables = <<>>
        /\ solution.total_cost = None
        /\ pc = "scheduled" => (schedule.returned = "None" /\ schedule.rows = <<>>)

C8_Witness ==
    /\ pc = "scheduled"
    /\ solution # None
    /\ solution.status = "Infeasible"

\* The triples whose variable the solution stores (value > 0).
StoredTriples ==
    {t \in DOMAIN problem.variables : VarName(t[1], t[2], t[3]) \in DOMAIN solution.variables}

Scheduled == pc = "scheduled" /\ solution # None /\ solution.status = "Optimal"

RowsOf(t) == {i \in 1..Len(schedule.rows) : RowKey(schedule.rows[i]) = TripleText(t)}

DelimiterFree(id) == Range(Chars(id)) \cap {"(", ")", ",", "_"} = {}

\* C9: for ids without parentheses, commas and underscores, decoding the
\* identifier of the variable of (f, c, p) gives (f, c, p): the schedule's
\* record of a stored variable carries the ids the variable was made from.
C9_DecodeInvertsEncode ==
    Scheduled =>
        \A t \in StoredTriples :
            (\A i \in 1..3 : DelimiterFree(t[i])) =>
                /\ ParseVarName(VarName(t[1], t[2], t[3])) =
                      [f |-> Chars(t[1]), c |-> Chars(t[2]), p |-> Chars(t[3])]
                /\ RowsOf(t) # {}

HasDelimiter(id) == Range(Chars(id)) \cap {"(", ")", ","} # {}

\* C10: when an id of a stored variable holds a parenthesis or a comma,
\* generate_shipment_schedule fails with a decode error; it never returns a
\* record whose triple is not the triple of its variable, and never drops
\* the record silently.
C10_DelimiterIdsFailLoudly ==
    Scheduled =>
        /\ (\E t \in StoredTriples : \E i \in 1..3 : HasDelimiter(t[i])) => raised # "none"
        /\ raised = "none" =>
              /\ \A i \in 1..Len(schedule.rows) :
                    \E t \in StoredTriples : RowKey(schedule.rows[i]) = TripleText(t)
              /\ \A t \in StoredTriples : RowsOf(t) # {}

\* create_optimization_model added every constraint of the two tables (it
\* returned without an exception).
FullyBuilt ==
    /\ problem # None
    /\ Len(problem.constraints) = Len(demand_data) + Len(capacity_data)

\* The sum of Quantity over the rows S of the schedule.
ScheduledQuantity(S) == SumOver(S, [i \in S |-> schedule.rows[i].Quantity])

RowsOfCustomerProduct(c, p) ==
    {i \in 1..Len(schedule.rows) :
        schedule.rows[i].Customer = Chars(c) /\ schedule.rows[i].Product = Chars(p)}

RowsOfFacilityProduct(f, p) ==
    {i \in 1..Len(schedule.rows) :
        schedule.rows[i].Facility = Chars(f) /\ schedule.rows[i].Product = Chars(p)}

\* C11: after an Optimal solve of the built model, for every (customer,
\* product) pair of the Demand table the Quantity of the schedule's records
\* of that customer and product sums to at least the pair's demand.
C11_ScheduleMeetsDemand ==
    (Scheduled /\ FullyBuilt) =>
        \A i \in 1..Len(demand_data) :
            ScheduledQuantity(RowsOfCustomerProduct(demand_data[i].c, demand_data[i].p))
                >= demand_data[i].demand

\* C12: after an Optimal solve of the built model, for every (facility,
\* product) pair of the Capacity table the Quantity of the schedule's
\* records of that facility and product sums to at most
\* capacity * (1 - current_utilization).
C12_ScheduleWithinCapacity ==
    (Scheduled /\ FullyBuilt) =>
        \A i \in 1..Len(capacity_data) :
            100 * ScheduledQuantity(RowsOfFacilityProduct(capacity_data[i].f, capacity_data[i].p))
                <= capacity_data[i].capacity * (100 - capacity_data[i].current_utilization)

\* The cost of the schedule's records, in tenths: the sum of
\* Quantity * Unit_Cost * (1.2 if the record's product is perishable, else 1.0).
ScheduleCost10 ==
    SumOver(1..Len(schedule.rows),
            [i \in 1..Len(schedule.rows) |->
                schedule.rows[i].Quantity * schedule.rows[i].Unit_Cost
                    * (IF schedule.rows[i].Is_Perishable THEN 12 ELSE 10)])

\* C13: after an Optimal solve, the Solution's total cost equals the sum
\* over the schedule's records of Quantity * Unit_Cost * multiplier.
C13_TotalCostIsScheduleCost ==
    Scheduled =>
        /\ solution.total_cost = Some(ScheduleCost10)
        /\ total_cost = Some(ScheduleCost10)

\* One facility, one customer, one product, an authored route, one demand
\* row, and no capacity row that leaves less than the demand.
OneRouteScenario ==
    /\ facilities = {F1} /\ customers = {C1} /\ products = {P1}
    /\ <<F1, C1, P1>> \in DOMAIN authored
    /\ Len(demand_data) = 1
    /\ demand_data[1].c = C1 /\ demand_data[1].p = P1
    /\ \A i \in 1..Len(capacity_data) :
          (capacity_data[i].f = F1 /\ capacity_data[i].p = P1) =>
              capacity_data[i].capacity * (100 - capacity_data[i].current_utilization)
                  >= 100 * demand_data[1].demand

TotalAvailable100(p) ==
    LET S == {i \in 1..Len(capacity_data) :
                 capacity_data[i].p = p /\ capacity_data[i].f \in facilities}
    IN  SumOver(S, [i \in S |->
                     capacity_data[i].capacity * (100 - capacity_data[i].current_utilization)])

TotalDemand(p) ==
    LET S == {i \in 1..Len(demand_data) :
                 demand_data[i].p = p /\ demand_data[i].c \in customers}
    IN  SumOver(S, [i \in S |-> demand_data[i].demand])

\* Some product has a Capacity entry for every facility and less available
\* capacity in total than its customers demand.
CapacityShortfall ==
    \E p \in products :
        /\ \A f \in facilities :
              \E i \in 1..Len(capacity_data) : capacity_data[i].f = f /\ capacity_data[i].p = p
        /\ TotalAvailable100(p) < 100 * TotalDemand(p)

\* C15: when some product has a Capacity entry for every facility and the
\* total available capacity is smaller than the total demand of the
\* customers for it, solving the built model ends Infeasible and
\* generate_shipment_schedule produces no schedule.
C15_ShortfallIsInfeasible ==
    (CapacityShortfall /\ FullyBuilt /\ solution # None) =>
        /\ solution.status = "Infeasible"
        /\ pc = "scheduled" => schedule = ReturnedNone

C15_Witness ==
    /\ pc = "scheduled"
    /\ solution # None
    /\ FullyBuilt
    /\ facilities = {F1} /\ customers = {C1} /\ products = {P1}
    /\ Len(demand_data) = 1 /\ demand_data[1].demand = 100
    /\ Len(capacity_data) = 1
    /\ capacity_data[1].capacity = 100 /\ capacity_data[1].current_utilization = 50
    /\ CapacityShortfall

\* C16: for a solve that ended Optimal with no positive quantity,
\* generate_shipment_schedule returns, without an exception, a result that
\* differs from the one it returns when there is no solution (solve never
\* run, or a status other than Optimal).
C16_EmptyScheduleIsDistinct ==
    (pc = "scheduled" /\ solution # None /\ solution.status = "Optimal"
        /\ solution.variables = <<>>) =>
        /\ raised = "none"
        /\ schedule # ReturnedNone

\* C17: whatever loads, builds and solves came before, the total cost the
\* optimizer exposes (self.total_cost and the Solution's total_cost) is
\* defined only if the most recent solve ended Optimal, and is then that
\* solve's value; no value of an earlier run is exposed after a later solve
\* that was not Optimal.
C17_TotalCostOfLastSolve ==
    /\ solution = None => total_cost = None
    /\ solution # None =>
          /\ solution.status # "Optimal" =>
                (total_cost = None /\ solution.total_cost = None)
          /\ solution.status = "Optimal" =>
                (solution.total_cost # None /\ total_cost = solution.total_cost)

\* C18: in the run pipeline, when solve ends with a status other than
\* Optimal, no Excel or HTML report is produced and the pipeline does not
\* announce successful completion, while the Solution keeps the status.
C18_SolverFailureAbortsReports ==
    (solution # None /\ solution.status # "Optimal") =>
        /\ files = {}
        /\ "Optimization completed successfully!" \notin printed
        /\ solution.status \in {"Not Solved", "Infeasible", "Unbounded", "Undefined"}

\* The stored variables whose name parses to a key that is not in the
\* route table.
OffTableNames ==
    {n \in DOMAIN solution.variables :
        /\ ParseVarName(n) # DecodeError
        /\ LET parsed == ParseVarName(n)
           IN  \A t \in DOMAIN cost_matrix :
                   TripleText(t) # <<parsed.f, parsed.c, parsed.p>>}

\* The warnings generate_shipment_schedule prints.
DecodeWarnings ==
    {"Warning: Could not parse variable", "Warning: No valid shipments could be parsed"}

\* C19: a decoded record whose key is not in the route table does not abort
\* generate_shipment_schedule: the record is emitted with Unit_Cost 0,
\* Transit_Time 0 and Total_Cost 0, and a decode warning flags it.
C19_MissingRouteIsFlagged ==
    Scheduled =>
        \A n \in OffTableNames :
            LET parsed == ParseVarName(n)
            IN  /\ raised = "none"
                /\ \E i \in 1..Len(schedule.rows) :
                      /\ RowKey(schedule.rows[i]) = <<parsed.f, parsed.c, parsed.p>>
                      /\ schedule.rows[i].Unit_Cost = 0
                      /\ schedule.rows[i].Transit_Time = 0
                      /\ schedule.rows[i].Total_Cost = 0
                /\ printed \cap DecodeWarnings # {}

\* The row is the join of the variable of triple t with the route table and
\* the catalogs.
RowJoins(row, t) ==
    /\ row.Quantity = solution.variables[VarName(t[1], t[2], t[3])]
    /\ row.Unit_Cost = cost_matrix[t].cost_per_unit
    /\ row.Transit_Time = cost_matrix[t].transit_time_days
    /\ row.Total_Cost = row.Quantity * row.Unit_Cost
    /\ row.Facility_Location = facility_details[t[1]].location
    /\ row.Facility_Type = facility_details[t[1]].type
    /\ row.Customer_Region = customer_details[t[2]].region
    /\ row.Customer_SLA = customer_details[t[2]].service_level_agreement
    /\ row.Product_Category = product_details[t[3]].category
    /\ row.Product_Weight = product_details[t[3]].weight
    /\ row.Is_Perishable = product_details[t[3]].is_perishable
    /\ row.Product_Value = product_details[t[3]].value

\* C20: every row of a returned schedule has the solver value of its
\* variable as Quantity, the route table entry of the variable's triple as
\* Unit_Cost and Transit_Time, Total_Cost = Quantity * Unit_Cost, and the
\* catalog attributes of the triple's facility, customer and product.
C20_RowsAreJoins ==
    Scheduled =>
        \A i \in 1..Len(schedule.rows) :
            \E t \in StoredTriples : RowJoins(schedule.rows[i], t)

\* C21: the rows of a returned schedule are in non-decreasing lexicographic
\* order of (Facility, Customer, Product), whatever the order in which the
\* stored variables were listed.
C21_RowsSorted ==
    schedule.returned = "DataFrame" =>
        \A i \in 1..Len(schedule.rows) : \A j \in (i + 1)..Len(schedule.rows) :
            ~KeyLess(RowKey(schedule.rows[j]), RowKey(schedule.rows[i]))

\* A schedule of two rows whose variables were listed in the other order.
C21_Witness ==
    /\ Scheduled
    /\ Len(schedule.rows) = 2
    /\ LET listed == Shipments(InNameOrder(DOMAIN solution.variables), solution.variables)
       IN  /\ Len(listed) = 2
           /\ KeyLess(RowKey(listed[2]), RowKey(listed[1]))

\* The (customer_id, product_id) keys of self.demand_data.
DemandKeys == {<<demand_data[i].c, demand_data[i].p>> : i \in 1..Len(demand_data)}

\* C22: after a load_data_from_csv call that was given a readable facilities
\* file and a readable demand file, self.facilities holds every facility id
\* of the facilities file and self.demand_data every (customer_id,
\* product_id) pair of the demand file, whichever of the other four files do
\* not exist.
C22_ReadableFilesAreLoaded ==
    (pc # "new" /\ csv.missing \cap {"facilities", "demand"} = {}) =>
        /\ csv.facility_ids \subseteq facilities
        /\ csv.demand_keys \subseteq DemandKeys

\* C23: after an Optimal solve with shipments, the returned schedule holds
\* exactly one record for each stored variable (the variables of value > 0)
\* and no record of quantity 0 or less; no stored variable is left out
\* because its name did not parse.
C23_OneRecordPerPositiveVariable ==
    (Scheduled /\ DOMAIN solution.variables # {}) =>
        /\ Unparsed = {}
        /\ schedule.returned = "DataFrame"
        /\ Len(schedule.rows) = Cardinality(DOMAIN solution.variables)
        /\ \A n \in DOMAIN solution.variables :
              \E i \in 1..Len(schedule.rows) :
                  /\ ParseVarName(n) # DecodeError
                  /\ RowKey(schedule.rows[i]) =
                        <<ParseVarName(n).f, ParseVarName(n).c, ParseVarName(n).p>>
                  /\ schedule.rows[i].Quantity = solution.variables[n]
        /\ \A i \in 1..Len(schedule.rows) : schedule.rows[i].Quantity > 0

\* C24: the name create_optimization_model gives a decision variable is
\* injective over the cross product: no two triples of the built problem
\* have the same name.
C24_VarNameInjective ==
    problem # None =>
        \A t \in DOMAIN problem.variables : \A u \in DOMAIN problem.variables :
            VarName(t[1], t[2], t[3]) = VarName(u[1], u[2], u[3]) => t = u
====
